---- MODULE Spec2Model ----
\* Verification model of the reorder-point / demand-forecasting core of the
\* Storer inventory backend (src/inventory_backend).
\*
\* Real numbers are modelled in fixed point: a quantity q is the integer
\* q * Scale.  Timestamps are integers counted in slots of a day
\* (SlotsPerDay slots per calendar day), so that two transactions of one
\* calendar day can differ in their time of day.
EXTENDS Integers, Sequences, FiniteSets, TLC

VARIABLES
    products,       \* table "products": pk -> row
    transactions,   \* table "transactions": rows in primary-key order
    now,            \* the clock (timezone.now()), in slots
    call,           \* the last invocation of calculate_reorder_point / update_reorder_point
    logs,           \* table "Inventory_logs": rows in primary-key order
    cmd,            \* the run of the update_reorder_points command
    reqs,           \* the API requests being handled, one per worker
    history,        \* the DataFrame of (transaction_date, quantity) handed to a forecast function
    prep,           \* the series that function prepared from it
    run             \* the forecast / backtest API request that was handled

sysVars == <<products, transactions, now, call, logs, cmd, reqs>>
prepVars == <<history, prep>>
apiVars == <<run>>
vars == <<sysVars, prepVars, apiVars>>

----------------------------------------------------------------------------
\* Bounds of the model

NumProducts == 2        \* products 1..NumProducts
MaxHistory == 2         \* rows of the transaction table in an initial state
MaxForecastLen == 2     \* items of a forecast list in an HTTP response
MaxHorizon == 2         \* largest horizon of a forecast request
MaxObs == 3             \* transactions in the history of a forecast request
NumDays == 3            \* calendar days the history of a forecast request spans
NumRequests == 2        \* API requests handled concurrently with the command
Scale == 1000           \* fixed-point resolution: 1 unit = Scale
SlotsPerDay == 2        \* time-of-day resolution
Today == 100            \* the day of the clock in an initial state

\* Program constants
DefaultLeadTime == 7        \* utils.py: lead time when the product has no supplier
DefaultStdDev == 5          \* utils.py: fallback of get_demand_std_dev
WindowDays == 90            \* utils.py: timedelta(days=90)
DefaultServiceLevel == 95   \* utils.py: service_level = 0.95, in percent
DefaultReorderPoint == 10   \* models.py: reorder_point default

Products == 1..NumProducts
NoSupplier == "None"
Suppliers == {"S1"}
Sku(p) == p

ServiceLevels == {5, 50, DefaultServiceLevel}   \* percent, inside (0,1)
Quantities == {3, 4}
TxnTimes == {(Today - WindowDays - 5) * SlotsPerDay,   \* older than the window
             (Today - 1) * SlotsPerDay + 1}            \* inside the window
YhatValues == {-(4 * Scale + Scale \div 2), 2 * Scale + 2 * (Scale \div 5)}

SeqsUpTo(S, n) == UNION {[1..k -> S] : k \in 0..n}

----------------------------------------------------------------------------
\* Arithmetic helpers

RECURSIVE SumSeq(_)
SumSeq(s) == IF s = <<>> THEN 0 ELSE Head(s) + SumSeq(Tail(s))

RECURSIVE IsqrtBetween(_, _, _)
\* floor of the square root of v, searched in lo..hi
IsqrtBetween(lo, hi, v) ==
    IF lo >= hi THEN lo
    ELSE LET mid == (lo + hi + 1) \div 2
         IN IF mid * mid <= v THEN IsqrtBetween(mid, hi, v)
            ELSE IsqrtBetween(lo, mid - 1, v)

Isqrt(v) == IsqrtBetween(0, v, v)

\* floor(Scale * sqrt(m)) for an integer m >= 0: the square root in fixed point
SqrtFixed(m) ==
    LET r == Isqrt(m)
    IN IsqrtBetween(r * Scale, (r + 1) * Scale, m * Scale * Scale)

\* Python's int(x) of a float: truncation toward zero
IntTrunc(x, d) == IF x >= 0 THEN x \div d ELSE -((-x) \div d)

----------------------------------------------------------------------------
\* suppliers/models.py: the Supplier model.  A row has exactly the declared
\* fields (and the implicit primary key); reading any other attribute of a
\* Supplier instance raises AttributeError.
Supplier(id) ==
    [id |-> id, name |-> "name", contact_name |-> "", contact_email |-> "",
     phone_number |-> "", address |-> "", created_at |-> "created",
     supplier_code |-> id, payment_terms |-> "", notes |-> ""]

\* products/models.py: a Product row (the fields the core reads or writes)
ProductRow(stock, rp, sup) ==
    [stock_level |-> stock, reorder_point |-> rp, supplier |-> sup,
     lead_time_days |-> DefaultLeadTime]

\* transactions/models.py: a Transaction row
TransactionRow(p, type, q, t) ==
    [product |-> p, transaction_type |-> type, quantity |-> q, transaction_date |-> t]

\* Calendar day of a timestamp
DateOf(t) == t \div SlotsPerDay

----------------------------------------------------------------------------
\* products/utils.py

\* scipy.stats.norm.ppf on the service levels of the model (percent),
\* in fixed point
\* (norm.ppf(0.95) = 1.645 = -norm.ppf(0.05), norm.ppf(0.5) = 0)
NormPpf(service_level) ==
    CASE service_level = 5 -> -((1645 * Scale) \div 1000)
      [] service_level = 50 -> 0
      [] service_level = 95 -> (1645 * Scale) \div 1000

\* The HTTP responses get_forecasted_demand can receive.  The peer is a
\* server addressed by a fixed URL, so every shape of answer is an input.
ForecastItems == {[i \in DOMAIN ys |-> [ds |-> i, yhat |-> ys[i]]] : ys \in SeqsUpTo(YhatValues, MaxForecastLen)}

Responses ==
    {[kind |-> "connection_error"]}
    \cup {[kind |-> "http", status |-> st, body |-> [error |-> "error"]] : st \in {404, 500}}
    \cup {[kind |-> "http", status |-> 200, body |-> [product_details |-> "details"]]}
    \cup {[kind |-> "http", status |-> 200, body |-> [forecast |-> f]] : f \in ForecastItems}

\* response.raise_for_status()
RaisesForStatus(response) == response.status >= 400 /\ response.status < 600

\* get_forecasted_demand without its "except KeyError" handler
GetForecastedDemand_KeyErrorEscapes(response) ==
    IF response.kind = "connection_error" THEN [raised |-> "", value |-> 0]
    ELSE IF response.status >= 400 /\ response.status < 600 THEN [raised |-> "", value |-> 0]
    ELSE IF "forecast" \notin DOMAIN response.body THEN [raised |-> "KeyError", value |-> 0]
    ELSE [raised |-> "",
          value |-> SumSeq([i \in DOMAIN response.body.forecast |->
                              response.body.forecast[i].yhat])]

\* get_forecasted_demand: [raised, value]; value in fixed point.  raised names
\* an exception that leaves the function ("" when it returns).
GetForecastedDemand(response) ==
    IF response.kind = "connection_error"
    THEN [raised |-> "", value |-> 0]                       \* RequestException
    ELSE IF RaisesForStatus(response)
    THEN [raised |-> "", value |-> 0]                       \* HTTPError is a RequestException
    ELSE IF "forecast" \notin DOMAIN response.body
    THEN [raised |-> "", value |-> 0]                       \* KeyError
    ELSE [raised |-> "",
          value |-> SumSeq([i \in DOMAIN response.body.forecast |->
                              response.body.forecast[i].yhat])]

\* The queryset of get_demand_std_dev: quantities of the product's
\* transactions dated in [now - 90 days, now]
SalesData(p, txns, t) ==
    LET start_date == t - WindowDays * SlotsPerDay
        rows == SelectSeq(txns, LAMBDA r : /\ r.product = p
                                           /\ r.transaction_date >= start_date
                                           /\ r.transaction_date <= t)
    IN [i \in DOMAIN rows |-> rows[i].quantity]

\* numpy.std (population standard deviation), in fixed point:
\* sqrt(n * sum(x^2) - sum(x)^2) / n
NpStd(xs) ==
    LET n == Len(xs)
        s1 == SumSeq(xs)
        s2 == SumSeq([i \in DOMAIN xs |-> xs[i] * xs[i]])
    IN SqrtFixed(n * s2 - s1 * s1) \div n

\* get_demand_std_dev with a fallback of 0 instead of 5
GetDemandStdDev_ZeroFallback(p, txns, t) ==
    LET sales_data == SalesData(p, txns, t)
    IN IF Len(sales_data) > 0 THEN NpStd(sales_data) ELSE 0

\* get_demand_std_dev, in fixed point
GetDemandStdDev(p, txns, t) ==
    LET sales_data == SalesData(p, txns, t)
    IN IF Len(sales_data) > 0 THEN NpStd(sales_data) ELSE DefaultStdDev * Scale

\* lead_time_days = product.supplier.lead_time_days if product.supplier else 7
LeadTimeDays(row) ==
    IF row.supplier # NoSupplier
    THEN IF "lead_time_days" \in DOMAIN Supplier(row.supplier)
         THEN [raised |-> "", value |-> Supplier(row.supplier).lead_time_days]
         ELSE [raised |-> "AttributeError", value |-> 0]
    ELSE [raised |-> "", value |-> DefaultLeadTime]

\* safety_stock = z_score * demand_std_dev, in units of 1/Scale^2
SafetyStock(service_level, demand_std_dev) == NormPpf(service_level) * demand_std_dev

\* return int(reorder_point): the clamp at zero left out
ClampReorderPoint_NoClamp(x) == IntTrunc(x, Scale * Scale)

\* return max(0, round(reorder_point)): rounding instead of truncation
ClampReorderPoint_Rounds(x) ==
    LET i == IntTrunc(2 * x + Scale * Scale, 2 * Scale * Scale)
    IN IF i > 0 THEN i ELSE 0

\* return max(0, int(reorder_point)); x in units of 1/Scale^2
ClampReorderPoint(x) ==
    LET i == IntTrunc(x, Scale * Scale)
    IN IF i > 0 THEN i ELSE 0

NotCalled == [raised |-> "", value |-> 0]

\* calculate_reorder_point(product, service_level), given the answer the
\* forecast request receives
CalculateReorderPoint(p, row, txns, t, service_level, response) ==
    LET lt == LeadTimeDays(row)
        fd == IF lt.raised = "" THEN GetForecastedDemand(response) ELSE NotCalled
        reached == lt.raised = "" /\ fd.raised = ""
        sd == IF reached THEN GetDemandStdDev(p, txns, t) ELSE 0
        ss == SafetyStock(service_level, sd)
    IN [raised |-> IF lt.raised # "" THEN lt.raised ELSE fd.raised,
        lead_time_days |-> lt.value,
        requested |-> IF lt.raised = "" THEN <<Sku(p), lt.value>> ELSE <<>>,
        fetched |-> lt.raised = "",
        forecasted_demand |-> fd.value,
        std_dev_called |-> reached,
        demand_std_dev |-> sd,
        safety_stock |-> ss,
        value |-> IF reached THEN ClampReorderPoint(fd.value * Scale + ss) ELSE 0]

----------------------------------------------------------------------------
\* Processes: the management command and the API request handlers

Requests == 1..NumRequests

NoRow == ProductRow(0, 0, NoSupplier)

\* products/management/commands/update_reorder_points.py: the command has not run
CmdIdle == [pc |-> "idle", i |-> 0, insts |-> <<>>]

\* Workers are interchangeable: a request goes to the first free worker
FirstFree(r) ==
    /\ reqs[r].kind = "none"
    /\ \A w \in 1..(r - 1) : reqs[w].kind # "none"

\* A worker that handles no request
IdleRequest ==
    [kind |-> "none", pc |-> "idle", pk |-> 0, row |-> NoRow,
     type |-> "", quantity |-> 0]

\* No forecast function has been applied
NoPrep == [fn |-> "none", series |-> <<>>]

FinishedRequest(kind) == [IdleRequest EXCEPT !.kind = kind, !.pc = "done"]

\* products/forecast.py and products/views.py: the values of a forecast request

\* A metric of the result: a float, or the string "NaN"
Number(v) == [str |-> "", num |-> v]
Sentinel(s) == [str |-> s, num |-> 0]

NoMetrics == [mae |-> Number(0), rmse |-> Number(0)]
NaNMetrics == [mae |-> Sentinel("NaN"), rmse |-> Sentinel("NaN")]

\* What a call of a forecast function did and returned.  The dict of a
\* backtest is the set of its keys with one field per key; order is the
\* order the ARIMA constructor was called with, fit_on the data of the model
NoResult ==
    [fn |-> "none", raised |-> "", keys |-> {}, error |-> <<>>,
     metrics |-> NoMetrics, forecast |-> <<>>, arima_order_used |-> <<>>,
     order |-> <<>>, series |-> <<>>, train |-> <<>>, validation |-> <<>>,
     constructed |-> FALSE, fit_on |-> <<>>, fitted |-> FALSE,
     actual_values |-> <<>>, forecasted_values |-> <<>>]

\* A comma-separated string is the sequence of its parts; None and the
\* empty string are <<>>
NoneStr == <<>>

\* Response(body, status)
Http(status, body) == [status |-> status, body |-> body]

\* No request has been handled
NoModel == [ctor |-> "", fit |-> "", predict |-> "", yhat |-> <<>>]
NoRun ==
    [view |-> "none", exists |-> TRUE, horizon |-> 0, query |-> NoneStr,
     model |-> NoModel, result |-> NoResult, response |-> Http(0, [error |-> <<>>])]

Handled(view, horizon, query, m, result, response) ==
    [view |-> view, exists |-> TRUE, horizon |-> horizon, query |-> query,
     model |-> m, result |-> result, response |-> response]

\* Lines 87-92, 201-205, 309-314, 446-449: no product has the sku
ProductNotFound(view, horizon, query, m) ==
    [Handled(view, horizon, query, m, NoResult,
             Http(404, [error |-> <<"Product not found.">>]))
        EXCEPT !.exists = FALSE]

----------------------------------------------------------------------------
\* One invocation of calculate_reorder_point (any service level) or of
\* Product.update_reorder_point over an arbitrary database

TxnRows == {TransactionRow(p, "sale", q, t) : p \in Products, q \in Quantities, t \in TxnTimes}

NoResponse == [kind |-> "none"]

NoOutcome ==
    [raised |-> "", lead_time_days |-> 0, requested |-> <<>>, fetched |-> FALSE,
     forecasted_demand |-> 0, std_dev_called |-> FALSE, demand_std_dev |-> 0,
     safety_stock |-> 0, value |-> 0]

NoCall ==
    [op |-> "none", product |-> 0, service_level |-> 0, response |-> NoResponse,
     out |-> NoOutcome]

\* No query of calculate_reorder_point orders its rows, so a table is given
\* once, with its rows listed by (transaction_date, product, quantity)
RowLeq(a, b) ==
    \/ a.transaction_date < b.transaction_date
    \/ /\ a.transaction_date = b.transaction_date
       /\ \/ a.product < b.product
          \/ a.product = b.product /\ a.quantity <= b.quantity

Tables(n) ==
    {t \in SeqsUpTo(TxnRows, n) : \A i \in 1..(Len(t) - 1) : RowLeq(t[i], t[i + 1])}

CalcInit ==
    /\ products \in [Products -> {ProductRow(0, DefaultReorderPoint, sup) :
                                     sup \in {NoSupplier} \cup Suppliers}]
    /\ transactions \in Tables(MaxHistory)
    /\ now = Today * SlotsPerDay
    /\ call = NoCall
    /\ logs = <<>>
    /\ cmd = CmdIdle
    /\ reqs = [r \in Requests |-> IdleRequest]
    /\ history = <<>>
    /\ prep = NoPrep
    /\ run = NoRun

Invocation(op, p, service_level, response) ==
    LET out == CalculateReorderPoint(p, products[p], transactions, now,
                                     service_level, response)
    IN [op |-> op, product |-> p, service_level |-> service_level,
        response |-> IF out.fetched THEN response ELSE NoResponse,
        out |-> out]

\* calculate_reorder_point(product, service_level) called directly
DirectCall(p, service_level, response) ==
    /\ call.op = "none"
    /\ call' = Invocation("calculate_reorder_point", p, service_level, response)
    /\ UNCHANGED <<products, transactions, now, logs, cmd, reqs, prepVars, apiVars>>

\* Product.update_reorder_point():
\*   self.reorder_point = calculate_reorder_point(self); self.save()
UpdateReorderPoint(p, response) ==
    LET inv == Invocation("update_reorder_point", p, DefaultServiceLevel, response)
    IN /\ call.op = "none"
       /\ call' = inv
       /\ products' = IF inv.out.raised = ""
                      THEN [products EXCEPT ![p].reorder_point = inv.out.value]
                      ELSE products
       /\ UNCHANGED <<transactions, now, logs, cmd, reqs, prepVars, apiVars>>

CalcNext ==
    \/ \E p \in Products, sl \in ServiceLevels, r \in Responses : DirectCall(p, sl, r)
    \/ \E p \in Products, r \in Responses : UpdateReorderPoint(p, r)

SpecCalc == CalcInit /\ [][CalcNext]_vars

----------------------------------------------------------------------------
\* The system: the update_reorder_points command running while API requests
\* are handled by other workers.  Every database statement is one step.

Init ==
    /\ products \in [Products -> {ProductRow(0, DefaultReorderPoint, sup) :
                                     sup \in {NoSupplier} \cup Suppliers}]
    /\ transactions = <<>>
    /\ now = Today * SlotsPerDay
    /\ call = NoCall
    /\ logs = <<>>
    /\ cmd = CmdIdle
    /\ reqs = [r \in Requests |-> IdleRequest]
    /\ history = <<>>
    /\ prep = NoPrep
    /\ run = NoRun

\* Model.save() without update_fields: an UPDATE of every column of the row
\* from the in-memory instance
SaveInstance(pk, row) == [products EXCEPT ![pk] = row]

\* inventory_logs/models.py: an InventoryLog row
InventoryLogRow(p, change) == [product |-> p, stock_change |-> change]

\* The answers the forecast request gets while the command runs: no
\* connection, or a forecast of one item
SystemResponses ==
    {r \in Responses :
        \/ r.kind = "connection_error"
        \/ /\ r.kind = "http" /\ r.status = 200
           /\ "forecast" \in DOMAIN r.body
           /\ Len(r.body.forecast) = 1
           /\ r.body.forecast[1].yhat > 0}

\* products = Product.objects.all(); for product in products: the queryset
\* is evaluated once, when the loop starts
CmdStart ==
    /\ cmd.pc = "idle"
    /\ cmd' = [pc |-> "calc", i |-> 1, insts |-> [p \in Products |-> products[p]]]
    /\ UNCHANGED <<products, transactions, now, call, logs, reqs, prepVars, apiVars>>

\* update_reorder_point, first statement:
\*   self.reorder_point = calculate_reorder_point(self)
\* An exception leaves handle() and ends the command.
CmdCalc(response) ==
    /\ cmd.pc = "calc"
    /\ LET p == cmd.i
           out == CalculateReorderPoint(p, cmd.insts[p], transactions, now,
                                        DefaultServiceLevel, response)
       IN cmd' = IF out.raised # ""
                 THEN [cmd EXCEPT !.pc = "crashed"]
                 ELSE [cmd EXCEPT !.pc = "save", !.insts[p].reorder_point = out.value]
    /\ UNCHANGED <<products, transactions, now, call, logs, reqs, prepVars, apiVars>>

\* update_reorder_point, second statement: self.save(); then the next product
CmdSave ==
    /\ cmd.pc = "save"
    /\ products' = SaveInstance(cmd.i, cmd.insts[cmd.i])
    /\ cmd' = [cmd EXCEPT !.i = cmd.i + 1,
                          !.pc = IF cmd.i = NumProducts THEN "done" ELSE "calc"]
    /\ UNCHANGED <<transactions, now, call, logs, reqs, prepVars, apiVars>>

\* Signed stock change of a transaction
StockChangeOf(type, quantity) == IF type = "purchase" THEN quantity ELSE -quantity

\* POST /api/transactions/: the serializer validates the payload and loads
\* the product the transaction refers to
TxnValidate(r, p, type, quantity) ==
    /\ FirstFree(r)
    /\ reqs' = [reqs EXCEPT ![r] = [kind |-> "txn", pc |-> "insert", pk |-> p,
                                    row |-> products[p], type |-> type,
                                    quantity |-> quantity]]
    /\ UNCHANGED <<products, transactions, now, call, logs, cmd, prepVars, apiVars>>

\* perform_create: transaction = serializer.save()
TxnInsert(r, t) ==
    /\ reqs[r].kind = "txn" /\ reqs[r].pc = "insert"
    /\ transactions' = Append(transactions,
            TransactionRow(reqs[r].pk, reqs[r].type, reqs[r].quantity, t))
    /\ reqs' = [reqs EXCEPT ![r].pc = "save"]
    /\ UNCHANGED <<products, now, call, logs, cmd, prepVars, apiVars>>

\* perform_create: product.stock_level -= / += quantity; product.save()
TxnSave(r) ==
    /\ reqs[r].kind = "txn" /\ reqs[r].pc = "save"
    /\ LET change == StockChangeOf(reqs[r].type, reqs[r].quantity)
           row == [reqs[r].row EXCEPT !.stock_level = @ + change]
       IN /\ products' = SaveInstance(reqs[r].pk, row)
          /\ reqs' = [reqs EXCEPT ![r].pc = "log", ![r].row = NoRow]
    /\ UNCHANGED <<transactions, now, call, logs, cmd, prepVars, apiVars>>

\* perform_create: InventoryLog.objects.create(...)
TxnLog(r) ==
    /\ reqs[r].kind = "txn" /\ reqs[r].pc = "log"
    /\ logs' = Append(logs, InventoryLogRow(reqs[r].pk,
                                StockChangeOf(reqs[r].type, reqs[r].quantity)))
    /\ reqs' = [reqs EXCEPT ![r] = FinishedRequest("txn")]
    /\ UNCHANGED <<products, transactions, now, call, cmd, prepVars, apiVars>>

\* POST /api/inventory_logs/ without a product id (400) or with the id of
\* no product (404)
InvReject(r, product_id) ==
    /\ FirstFree(r)
    /\ product_id \notin Products
    /\ reqs' = [reqs EXCEPT ![r] = FinishedRequest("inv_rejected")]
    /\ UNCHANGED <<products, transactions, now, call, logs, cmd, prepVars, apiVars>>

\* InventoryViewSet.create: product = Product.objects.get(id=product_id)
InvLoad(r, product_id, stock_change) ==
    /\ FirstFree(r)
    /\ product_id \in Products
    /\ reqs' = [reqs EXCEPT ![r] = [kind |-> "inv", pc |-> "save", pk |-> product_id,
                                    row |-> products[product_id], type |-> "",
                                    quantity |-> stock_change]]
    /\ UNCHANGED <<products, transactions, now, call, logs, cmd, prepVars, apiVars>>

\* InventoryViewSet.create: product.stock_level += stock_change; product.save()
InvSave(r) ==
    /\ reqs[r].kind = "inv" /\ reqs[r].pc = "save"
    /\ LET row == [reqs[r].row EXCEPT !.stock_level = @ + reqs[r].quantity]
       IN /\ products' = SaveInstance(reqs[r].pk, row)
          /\ reqs' = [reqs EXCEPT ![r].pc = "log", ![r].row = NoRow]
    /\ UNCHANGED <<transactions, now, call, logs, cmd, prepVars, apiVars>>

\* InventoryViewSet.create: InventoryLog.objects.create(...)
InvLog(r) ==
    /\ reqs[r].kind = "inv" /\ reqs[r].pc = "log"
    /\ logs' = Append(logs, InventoryLogRow(reqs[r].pk, reqs[r].quantity))
    /\ reqs' = [reqs EXCEPT ![r] = FinishedRequest("inv")]
    /\ UNCHANGED <<products, transactions, now, call, cmd, prepVars, apiVars>>

\* ProductSerializer: reorder_point is read_only, so it is dropped from the
\* validated data
ValidatedData(payload) == [supplier |-> payload.supplier]

\* PUT/PATCH /api/products/<pk>/: the view loads the instance and the
\* serializer sets the validated fields on it
ApiLoad(r, p, payload) ==
    /\ FirstFree(r)
    /\ reqs' = [reqs EXCEPT ![r] = [kind |-> "api", pc |-> "save", pk |-> p,
                    row |-> [products[p] EXCEPT !.supplier = ValidatedData(payload).supplier],
                    type |-> "", quantity |-> 0]]
    /\ UNCHANGED <<products, transactions, now, call, logs, cmd, prepVars, apiVars>>

\* ... and saves it
ApiSave(r) ==
    /\ reqs[r].kind = "api" /\ reqs[r].pc = "save"
    /\ products' = SaveInstance(reqs[r].pk, reqs[r].row)
    /\ reqs' = [reqs EXCEPT ![r] = FinishedRequest("api")]
    /\ UNCHANGED <<transactions, now, call, logs, cmd, prepVars, apiVars>>

TransactionTypes == {"sale", "purchase"}
\* Dates of the transactions created while the command runs: in the window
CreatedTimes == {t \in TxnTimes : t >= (Today - WindowDays) * SlotsPerDay}
StockChanges == {-1, 2}
Payloads == [supplier : {NoSupplier} \cup Suppliers, reorder_point : {-5, 99}]

Next ==
    \/ CmdStart
    \/ \E response \in SystemResponses : CmdCalc(response)
    \/ CmdSave
    \/ \E r \in Requests, p \in Products, type \in TransactionTypes, q \in Quantities :
          TxnValidate(r, p, type, q)
    \/ \E r \in Requests, t \in CreatedTimes : TxnInsert(r, t)
    \/ \E r \in Requests : TxnSave(r)
    \/ \E r \in Requests : TxnLog(r)
    \/ \E r \in Requests, pid \in {0, NumProducts + 1} : InvReject(r, pid)
    \/ \E r \in Requests, p \in Products, c \in StockChanges : InvLoad(r, p, c)
    \/ \E r \in Requests : InvSave(r)
    \/ \E r \in Requests : InvLog(r)
    \/ \E r \in Requests, p \in Products, payload \in Payloads : ApiLoad(r, p, payload)
    \/ \E r \in Requests : ApiSave(r)

Spec == Init /\ [][Next]_vars


----------------------------------------------------------------------------
\* products/forecast.py: the preparation of the series.
\* A frame or series is a sequence of rows [ds, y]; ds is a timestamp, and a
\* calendar day d as a timestamp is its midnight, d * SlotsPerDay.

Midnight(d) == d * SlotsPerDay

\* Sum of the quantities of rows
SumQuantities(rows) == SumSeq([i \in DOMAIN rows |-> rows[i].quantity])

MinOf(S) == CHOOSE x \in S : \A y \in S : x <= y
MaxOf(S) == CHOOSE x \in S : \A y \in S : y <= x

\* The elements of a set of integers in increasing order
RECURSIVE SortedSeq(_)
SortedSeq(S) ==
    IF S = {} THEN <<>>
    ELSE LET m == MinOf(S) IN <<m>> \o SortedSeq(S \ {m})

\* Variant of DailyFrame without rows for the days that have no transaction
DailyFrame_ActiveDaysOnly(h) ==
    LET days == SortedSeq({DateOf(h[i].transaction_date) : i \in DOMAIN h})
    IN [k \in DOMAIN days |->
           [ds |-> Midnight(days[k]),
            y |-> SumQuantities(SelectSeq(h,
                     LAMBDA r : DateOf(r.transaction_date) = days[k]))]]

\* Variant of DailyFrame in which a day keeps its last transaction only
DailyFrame_LastOfDay(h) ==
    LET days == {DateOf(h[i].transaction_date) : i \in DOMAIN h}
        first == MinOf(days)
    IN [k \in 1..(MaxOf(days) - first + 1) |->
           LET d == first + k - 1
               rows == SelectSeq(h, LAMBDA r : DateOf(r.transaction_date) = d)
           IN [ds |-> Midnight(d),
               y |-> IF rows = <<>> THEN 0 ELSE rows[Len(rows)].quantity]]

\* df.groupby(pd.Grouper(key="ds", freq="D")).sum().reset_index(): one row
\* for every calendar day from the first to the last day of the data, with
\* the sum of the day's quantities (0 for a day without rows)
DailyFrame(h) ==
    LET days == {DateOf(h[i].transaction_date) : i \in DOMAIN h}
        first == MinOf(days)
    IN [k \in 1..(MaxOf(days) - first + 1) |->
           LET d == first + k - 1
           IN [ds |-> Midnight(d),
               y |-> SumQuantities(SelectSeq(h,
                        LAMBDA r : DateOf(r.transaction_date) = d))]]

\* Series.asfreq("D"): the series on the daily index from its first to its
\* last date; a date that is not in the series gets NaN
AsFreqDaily(series) ==
    LET first == DateOf(series[1].ds)
        last == DateOf(series[Len(series)].ds)
    IN [k \in 1..(last - first + 1) |->
           LET d == first + k - 1
               at == {i \in DOMAIN series : series[i].ds = Midnight(d)}
           IN IF at = {}
              THEN [ds |-> Midnight(d), y |-> 0, isna |-> TRUE]
              ELSE [ds |-> Midnight(d), y |-> series[MinOf(at)].y, isna |-> FALSE]]

\* Series.fillna(method="ffill"): a NaN takes the last value before it that
\* is not NaN; leading NaNs stay
RECURSIVE FillForward(_)
FillForward(series) ==
    IF Len(series) <= 1 THEN series
    ELSE LET init == FillForward(SubSeq(series, 1, Len(series) - 1))
             prev == init[Len(init)]
             cur == series[Len(series)]
         IN Append(init, IF cur.isna /\ ~prev.isna
                         THEN [cur EXCEPT !.y = prev.y, !.isna = FALSE]
                         ELSE cur)

\* forecast_demand_arima, lines 75-80: the series the model is fitted on
ArimaForecastSeries(h) == FillForward(AsFreqDaily(DailyFrame(h)))

\* backtest_arima_forecast, lines 187-192: the series that is split
ArimaBacktestSeries(h) == DailyFrame(h)

\* df["ds"] = pd.to_datetime(df["ds"]); df.groupby("ds")["y"].sum()
\*   .reset_index(); df.sort_values("ds"): one row for every distinct
\* timestamp, in increasing order, with the sum of its quantities
ProphetFrame(h) ==
    LET stamps == SortedSeq({h[i].transaction_date : i \in DOMAIN h})
    IN [k \in DOMAIN stamps |->
           [ds |-> stamps[k],
            y |-> SumQuantities(SelectSeq(h,
                     LAMBDA r : r.transaction_date = stamps[k]))]]

\* forecast_demand_prophet, lines 36-41
ProphetForecastFrame(h) == ProphetFrame(h)

\* backtest_prophet_forecast, lines 119-124
ProphetBacktestFrame(h) == ProphetFrame(h)

----------------------------------------------------------------------------
\* The preparation of the series by each forecast function, applied to the
\* history of a product.  The views hand over the product's transactions
\* ordered by transaction_date, and only when there is at least one.

ObsTimes == {Midnight(d) + s : d \in 1..NumDays, s \in 0..(SlotsPerDay - 1)}
ObsRows == [transaction_date : ObsTimes, quantity : Quantities]

Histories ==
    {h \in SeqsUpTo(ObsRows, MaxObs) :
        /\ h # <<>>
        /\ \A i \in 1..(Len(h) - 1) : h[i].transaction_date <= h[i + 1].transaction_date}

PrepInit ==
    /\ products = [p \in Products |-> ProductRow(0, DefaultReorderPoint, NoSupplier)]
    /\ transactions = <<>>
    /\ now = Today * SlotsPerDay
    /\ call = NoCall
    /\ logs = <<>>
    /\ cmd = CmdIdle
    /\ reqs = [r \in Requests |-> IdleRequest]
    /\ history \in Histories
    /\ prep = NoPrep
    /\ run = NoRun

ForecastDemandArima ==
    /\ prep.fn = "none"
    /\ prep' = [fn |-> "forecast_demand_arima", series |-> ArimaForecastSeries(history)]
    /\ UNCHANGED <<sysVars, history, apiVars>>

BacktestArimaForecast ==
    /\ prep.fn = "none"
    /\ prep' = [fn |-> "backtest_arima_forecast", series |-> ArimaBacktestSeries(history)]
    /\ UNCHANGED <<sysVars, history, apiVars>>

ForecastDemandProphet ==
    /\ prep.fn = "none"
    /\ prep' = [fn |-> "forecast_demand_prophet", series |-> ProphetForecastFrame(history)]
    /\ UNCHANGED <<sysVars, history, apiVars>>

BacktestProphetForecast ==
    /\ prep.fn = "none"
    /\ prep' = [fn |-> "backtest_prophet_forecast", series |-> ProphetBacktestFrame(history)]
    /\ UNCHANGED <<sysVars, history, apiVars>>

PrepNext ==
    \/ ForecastDemandArima
    \/ BacktestArimaForecast
    \/ ForecastDemandProphet
    \/ BacktestProphetForecast

SpecPrep == PrepInit /\ [][PrepNext]_vars

----------------------------------------------------------------------------
\* products/forecast.py: the models, the forecast, the split and the metrics.
\*
\* Prophet and statsmodels' ARIMA are libraries: what a model answers is an
\* input of the request.  A model m says whether its constructor, its fit and
\* its prediction raise (the name of the exception, "" for none), and which
\* values it predicts for the first, second, ... date after its training
\* data.  A predicted value is a float that may be NaN: [yhat, finite].

FiniteYhat == [yhat |-> 2 * Scale + Scale \div 2, finite |-> TRUE]
NaNYhat == [yhat |-> 0, finite |-> FALSE]

WorkingModel(yhat) == [ctor |-> "", fit |-> "", predict |-> "", yhat |-> yhat]

\* The predictions of a model: all finite, none finite, or all but the first
YhatPatterns ==
    {[k \in 1..MaxHorizon |-> FiniteYhat],
     [k \in 1..MaxHorizon |-> NaNYhat],
     [k \in 1..MaxHorizon |-> IF k = 1 THEN NaNYhat ELSE FiniteYhat]}

ArimaModels ==
    {WorkingModel(yhat) : yhat \in YhatPatterns}
        \cup {[WorkingModel([k \in 1..MaxHorizon |-> FiniteYhat]) EXCEPT !.ctor = "ValueError"],
              [WorkingModel([k \in 1..MaxHorizon |-> FiniteYhat]) EXCEPT !.fit = "LinAlgError"],
              [WorkingModel([k \in 1..MaxHorizon |-> FiniteYhat]) EXCEPT !.predict = "ValueError"]}

\* Prophet() takes no argument here and does not raise
ProphetModels == {m \in ArimaModels : m.ctor = ""}

\* Prophet.fit(df): raises ValueError for a frame of fewer than two rows
\* ("Dataframe has less than 2 non-NaN rows."), and otherwise as the model says
ProphetFit(m, df) == IF Len(df) < 2 THEN "ValueError" ELSE m.fit

\* Variant of PySliceStop that keeps one entry more
PySliceStop_OneMore(s, stop) ==
    LET n == IF stop < 0
             THEN (IF Len(s) + stop < 0 THEN 0 ELSE Len(s) + stop)
             ELSE (IF stop > Len(s) THEN Len(s) ELSE stop)
    IN SubSeq(s, 1, IF n < Len(s) THEN n + 1 ELSE n)

\* Python's s[:stop] and s[start:] of a sequence, for any integer
PySliceStop(s, stop) ==
    LET n == IF stop < 0
             THEN (IF Len(s) + stop < 0 THEN 0 ELSE Len(s) + stop)
             ELSE (IF stop > Len(s) THEN Len(s) ELSE stop)
    IN SubSeq(s, 1, n)

PySliceStart(s, start) ==
    LET n == IF start < 0
             THEN (IF Len(s) + start < 0 THEN 0 ELSE Len(s) + start)
             ELSE (IF start > Len(s) THEN Len(s) ELSE start)
    IN SubSeq(s, n + 1, Len(s))

AbsVal(x) == IF x < 0 THEN -x ELSE x

\* xs[mask] of numpy: the entries of xs at the positions where mask is true
\* Variant of BooleanIndex that keeps as many leading elements as the mask
\* has True entries
BooleanIndex_Leading(xs, mask) ==
    SubSeq(xs, 1, Cardinality({i \in DOMAIN mask : mask[i]}))

RECURSIVE BooleanIndex(_, _)
BooleanIndex(xs, mask) ==
    IF xs = <<>> THEN <<>>
    ELSE (IF Head(mask) THEN <<Head(xs)>> ELSE <<>>)
             \o BooleanIndex(Tail(xs), Tail(mask))

\* sklearn's mean_absolute_error, and np.sqrt(mean_squared_error(..)), of
\* integer actual values and fixed-point predictions, in 1/Scale
MeanAbsoluteError(actual, forecasted) ==
    SumSeq([i \in DOMAIN actual |-> AbsVal(actual[i] * Scale - forecasted[i])])
        \div Len(actual)

RootMeanSquaredError(actual, forecasted) ==
    LET sq == [i \in DOMAIN actual |->
                  (actual[i] * Scale - forecasted[i]) * (actual[i] * Scale - forecasted[i])]
    IN IsqrtBetween(0, 40 * Scale, SumSeq(sq) \div Len(actual))

InsufficientData ==
    <<"Insufficient data for backtesting. Need data for both training and validation periods.">>

\* Lines 148-157 and 208-217: the values of the validation rows and their
\* predictions, both restricted to the finite predictions, and the metrics.
\* Lines 158-160 and 218-220: the log line formats the local names mae and
\* rmse, which are bound only in the branch that computes them: in the "NaN"
\* branch the line raises UnboundLocalError (log_raises).
Evaluate(validation, predictions) ==
    LET mask == [i \in DOMAIN predictions |-> predictions[i].finite]
        actual_values ==
            BooleanIndex([i \in DOMAIN validation |-> validation[i].y], mask)
        forecasted_values ==
            BooleanIndex([i \in DOMAIN predictions |-> predictions[i].yhat], mask)
        nan == actual_values = <<>> \/ forecasted_values = <<>>
    IN [metrics |->
            IF nan THEN NaNMetrics
            ELSE [mae |-> Number(MeanAbsoluteError(actual_values, forecasted_values)),
                  rmse |-> Number(RootMeanSquaredError(actual_values, forecasted_values))],
        log_raises |-> IF nan THEN "UnboundLocalError" ELSE "",
        actual_values |-> actual_values,
        forecasted_values |-> forecasted_values]

\* pd.date_range(start=start, periods=periods, freq="D")
DateRange_EverySecondDay(start, periods) ==
    [k \in 1..periods |-> start + 2 * (k - 1) * SlotsPerDay]

DateRange(start, periods) ==
    [k \in 1..periods |-> start + (k - 1) * SlotsPerDay]

\* The first n values the model predicts after its training data
Predictions(m, n) == SubSeq(m.yhat, 1, n)

\* Prophet.make_future_dataframe(periods): the dates of the training frame,
\* then the periods days after its last date
MakeFutureDataframe(df, periods) ==
    [k \in 1..Len(df) |-> df[k].ds]
        \o [k \in 1..periods |-> df[Len(df)].ds + k * SlotsPerDay]

\* Prophet.predict(future) of a model fitted on df: one row for each date of
\* future; a date of df gets its fitted value, a later date the model's
\* prediction
ProphetPredict(m, df, future) ==
    [k \in DOMAIN future |->
        IF k <= Len(df)
        THEN [ds |-> future[k], yhat |-> df[k].y * Scale, finite |-> TRUE]
        ELSE [ds |-> future[k], yhat |-> m.yhat[k - Len(df)].yhat,
              finite |-> m.yhat[k - Len(df)].finite]]

\* Variant of AfterLastObserved that keeps the last observed date
AfterLastObserved_Inclusive(forecast, df) ==
    SelectSeq(forecast, LAMBDA r : r.ds >= df[Len(df)].ds)

\* Line 46: forecast[forecast["ds"] > df["ds"].max()]; df is sorted by ds
AfterLastObserved(forecast, df) ==
    SelectSeq(forecast, LAMBDA r : r.ds > df[Len(df)].ds)

\* forecast_demand_prophet, lines 20-53: every exception is caught and the
\* function returns []
forecast_demand_prophet(historical_data, horizon, m) ==
    LET df == ProphetForecastFrame(historical_data)
        base == [NoResult EXCEPT !.fn = "forecast_demand_prophet", !.series = df,
                                 !.constructed = TRUE, !.fit_on = df]
        fit == ProphetFit(m, df)
        future == MakeFutureDataframe(df, horizon)
        forecast == ProphetPredict(m, df, future)
    IN IF fit # "" THEN base
       ELSE IF m.predict # "" THEN [base EXCEPT !.fitted = TRUE]
       ELSE [base EXCEPT !.fitted = TRUE,
                         !.forecast = AfterLastObserved(forecast, df)]

\* Variant of ForecastFrame that labels each value with the following day
ForecastFrame_ShiftedDates(dates, values) ==
    [k \in DOMAIN dates |->
        [ds |-> dates[k] + SlotsPerDay, yhat |-> values[k].yhat,
         finite |-> values[k].finite]]

\* pd.DataFrame({"ds": dates, "yhat": values}): ValueError unless the two
\* columns have the same length
ForecastFrame(dates, values) ==
    [k \in DOMAIN dates |->
        [ds |-> dates[k], yhat |-> values[k].yhat, finite |-> values[k].finite]]

\* forecast_demand_arima, lines 56-97: an exception of the model is logged
\* and raised again
forecast_demand_arima(historical_data, horizon, arima_order, m) ==
    LET ts == ArimaForecastSeries(historical_data)
        base == [NoResult EXCEPT !.fn = "forecast_demand_arima", !.series = ts,
                                 !.order = arima_order]
        built == [base EXCEPT !.constructed = TRUE, !.fit_on = ts]
        forecast_values == Predictions(m, horizon)
        forecast_dates == DateRange(ts[Len(ts)].ds, horizon)
    IN IF m.ctor # "" THEN [base EXCEPT !.raised = m.ctor]
       ELSE IF m.fit # "" THEN [built EXCEPT !.raised = m.fit]
       ELSE IF m.predict # "" THEN [built EXCEPT !.fitted = TRUE, !.raised = m.predict]
       ELSE IF Len(forecast_dates) # Len(forecast_values)
            THEN [built EXCEPT !.fitted = TRUE, !.raised = "ValueError"]
       ELSE [built EXCEPT !.fitted = TRUE,
                          !.forecast = ForecastFrame(forecast_dates, forecast_values)]

\* Variant of SplitIsEmpty that looks at the validation part only
SplitIsEmpty_ValidationOnly(train, validation) == validation = <<>>

\* Lines 131 and 195: train.empty or validation.empty
SplitIsEmpty(train, validation) == train = <<>> \/ validation = <<>>

\* backtest_prophet_forecast, lines 100-164: an exception of fit or predict
\* becomes an error dict; the log line is outside every try
backtest_prophet_forecast(historical_data, validation_horizon, m) ==
    LET df == ProphetBacktestFrame(historical_data)
        train_df == PySliceStop(df, -validation_horizon)
        validation_df == PySliceStart(df, -validation_horizon)
        base == [NoResult EXCEPT !.fn = "backtest_prophet_forecast", !.series = df,
                                 !.train = train_df, !.validation = validation_df]
        built == [base EXCEPT !.constructed = TRUE, !.fit_on = train_df]
        fit == ProphetFit(m, train_df)
        validation_forecast ==
            ForecastFrame([k \in DOMAIN validation_df |-> validation_df[k].ds],
                          Predictions(m, Len(validation_df)))
        ev == Evaluate(validation_df, validation_forecast)
        done == [built EXCEPT !.fitted = TRUE,
                              !.actual_values = ev.actual_values,
                              !.forecasted_values = ev.forecasted_values]
    IN IF SplitIsEmpty(train_df, validation_df)
       THEN [base EXCEPT !.keys = {"error"}, !.error = InsufficientData]
       ELSE IF fit # ""
       THEN [built EXCEPT !.keys = {"error"},
                          !.error = <<"Prophet model fitting failed: ", fit>>]
       ELSE IF m.predict # ""
       THEN [built EXCEPT !.fitted = TRUE, !.keys = {"error"},
                          !.error = <<"Prophet model prediction failed: ", m.predict>>]
       ELSE IF ev.log_raises # ""
       THEN [done EXCEPT !.raised = ev.log_raises]
       ELSE [done EXCEPT !.keys = {"metrics", "forecast"},
                         !.metrics = ev.metrics,
                         !.forecast = validation_forecast]

\* backtest_arima_forecast, lines 167-234: the model is constructed outside
\* the try; every exception after that, the one of the log line included,
\* becomes an error dict with "NaN" metrics and an empty forecast
backtest_arima_forecast(historical_data, validation_horizon, arima_order, m) ==
    LET ts == ArimaBacktestSeries(historical_data)
        train_ts == PySliceStop(ts, -validation_horizon)
        validation_ts == PySliceStart(ts, -validation_horizon)
        base == [NoResult EXCEPT !.fn = "backtest_arima_forecast", !.series = ts,
                                 !.train = train_ts, !.validation = validation_ts,
                                 !.order = arima_order]
        built == [base EXCEPT !.constructed = TRUE, !.fit_on = train_ts]
        validation_forecast_df ==
            ForecastFrame([k \in DOMAIN validation_ts |-> validation_ts[k].ds],
                          Predictions(m, Len(validation_ts)))
        ev == Evaluate(validation_ts, validation_forecast_df)
        done == [built EXCEPT !.fitted = TRUE,
                              !.actual_values = ev.actual_values,
                              !.forecasted_values = ev.forecasted_values]
        failed(b, e) ==
            [b EXCEPT !.keys = {"error", "metrics", "forecast"},
                      !.error = <<"ARIMA forecasting failed: ", e>>,
                      !.metrics = NaNMetrics,
                      !.forecast = <<>>]
    IN IF SplitIsEmpty(train_ts, validation_ts)
       THEN [base EXCEPT !.keys = {"error"}, !.error = InsufficientData]
       ELSE IF m.ctor # "" THEN [base EXCEPT !.raised = m.ctor]
       ELSE IF m.fit # "" THEN failed(built, m.fit)
       ELSE IF m.predict # "" THEN failed([built EXCEPT !.fitted = TRUE], m.predict)
       ELSE IF ev.log_raises # "" THEN failed(done, ev.log_raises)
       ELSE [done EXCEPT !.keys = {"metrics", "forecast", "arima_order_used"},
                         !.metrics = ev.metrics,
                         !.forecast = validation_forecast_df,
                         !.arima_order_used = arima_order]

----------------------------------------------------------------------------
\* products/views.py: the four forecast / backtest views.
\* inventory_backend/urls.py, lines 34-37: the routes capture product_sku
\* and an <int:> horizon (a non-negative integer); they capture no
\* arima_order_str, so the views' parameter arima_order_str keeps its default
\* None whatever the query string of the request says.

Horizons == 0..MaxHorizon

OrderStrings == {NoneStr, <<"2", "1", "2">>, <<"1", "1">>}

\* int(part): the integer, or ValueError
IntOf(part) ==
    CASE part = "0" -> [ok |-> TRUE, value |-> 0]
      [] part = "1" -> [ok |-> TRUE, value |-> 1]
      [] part = "2" -> [ok |-> TRUE, value |-> 2]
      [] part = "5" -> [ok |-> TRUE, value |-> 5]
      [] part = "-1" -> [ok |-> TRUE, value |-> -1]
      [] OTHER -> [ok |-> FALSE, value |-> 0]

DefaultArimaOrder == <<5, 1, 0>>

\* views.py, lines 229-243 and 474-485: arima_order is (5, 1, 0) unless
\* arima_order_str is given; p, d, q = map(int, arima_order_str.split(","))
\* raises ValueError unless there are three parts and each is an integer
ParseArimaOrder(arima_order_str) ==
    IF arima_order_str = <<>> THEN [ok |-> TRUE, order |-> DefaultArimaOrder]
    ELSE IF Len(arima_order_str) = 3
            /\ \A i \in DOMAIN arima_order_str : IntOf(arima_order_str[i]).ok
         THEN [ok |-> TRUE,
               order |-> [i \in 1..3 |-> IntOf(arima_order_str[i]).value]]
         ELSE [ok |-> FALSE, order |-> DefaultArimaOrder]

\* The value of the view parameter arima_order_str for a request
ArimaOrderStrArg(query) == NoneStr

\* Variant of ErrorResponse that puts the message under 'detail'
ErrorResponse_Detail(status, message) == Http(status, [detail |-> message])

\* Response({"error": message}, status=status)
ErrorResponse(status, message) == Http(status, [error |-> message])

ProductDetails == [name |-> "name", description |-> "description"]

\* Variant of NoHistoryResponse that answers 200 with an empty forecast
NoHistoryResponse_EmptyForecast ==
    Http(200, [product_details |-> ProductDetails, forecast |-> <<>>])

\* Lines 104-108, 220-227, 326-330, 460-464
NoHistoryResponse ==
    ErrorResponse(404, <<"No historical transaction data found for this product.">>)

InvalidOrderResponse ==
    ErrorResponse(400, <<"Invalid arima_order format. Use 'p,d,q' (e.g., '2,1,2').">>)

InvalidHorizonResponse ==
    ErrorResponse(400, <<"Validation horizon must be a positive integer.">>)

\* Variant of ProphetForecastResponse without the check of an empty forecast
ProphetForecastResponse_NoEmptyCheck(forecast) ==
    Http(200, [product_details |-> ProductDetails, forecast |-> forecast])

\* get_demand_forecast, lines 110-119
ProphetForecastResponse(forecast) ==
    IF forecast = <<>>
    THEN ErrorResponse(500, <<"Forecast is empty due to an error during prediction.">>)
    ELSE Http(200, [product_details |-> ProductDetails, forecast |-> forecast])

\* get_demand_forecast, lines 71-128
get_demand_forecast(exists, horizon, m) ==
    LET view == "get_demand_forecast"
    IN /\ run.view = "none"
       /\ IF ~exists
          THEN /\ run' = ProductNotFound(view, horizon, NoneStr, m)
               /\ UNCHANGED prep
          ELSE IF history = <<>>
          THEN /\ run' = Handled(view, horizon, NoneStr, m, NoResult, NoHistoryResponse)
               /\ UNCHANGED prep
          ELSE \E result \in {forecast_demand_prophet(history, horizon, m)} :
               /\ run' = Handled(view, horizon, NoneStr, m, result,
                    IF result.raised # ""
                    THEN ErrorResponse(500, <<"An unexpected error occurred: ", result.raised>>)
                    ELSE ProphetForecastResponse(result.forecast))
               /\ prep' = [fn |-> result.fn, series |-> result.series]
       /\ UNCHANGED <<sysVars, history>>

\* get_arima_demand_forecast, lines 181-267
get_arima_demand_forecast(exists, horizon, query, m) ==
    LET arima_order_str == ArimaOrderStrArg(query)
        parsed == ParseArimaOrder(arima_order_str)
        view == "get_arima_demand_forecast"
    IN /\ run.view = "none"
       /\ IF ~exists
          THEN /\ run' = ProductNotFound(view, horizon, query, m)
               /\ UNCHANGED prep
          ELSE IF history = <<>>
          THEN /\ run' = Handled(view, horizon, query, m, NoResult, NoHistoryResponse)
               /\ UNCHANGED prep
          ELSE IF ~parsed.ok
          THEN /\ run' = Handled(view, horizon, query, m, NoResult, InvalidOrderResponse)
               /\ UNCHANGED prep
          ELSE \E result \in {forecast_demand_arima(history, horizon, parsed.order, m)} :
               /\ run' = Handled(view, horizon, query, m, result,
                    IF result.raised # ""
                    THEN ErrorResponse(500, <<"ARIMA forecasting failed: ", result.raised>>)
                    ELSE Http(200, [product_details |-> ProductDetails,
                                    forecast |-> result.forecast,
                                    arima_order_used |-> parsed.order]))
               /\ prep' = [fn |-> result.fn, series |-> result.series]
       /\ UNCHANGED <<sysVars, history>>

\* Lines 341-356 and 489-502 without arima_order_used
BacktestResponse(result) ==
    IF "error" \in result.keys
    THEN ErrorResponse(400, result.error)
    ELSE Http(200, [product_details |-> ProductDetails,
                    metrics |-> result.metrics,
                    forecast |-> result.forecast])

\* get_prophet_backtesting, lines 293-370: int(validation_horizon) of an int
\* does not raise; an exception of the backtest that is not a ValueError
\* goes to the outer handler
get_prophet_backtesting(exists, validation_horizon, m) ==
    LET view == "get_prophet_backtesting"
    IN /\ run.view = "none"
       /\ IF ~exists
          THEN /\ run' = ProductNotFound(view, validation_horizon, NoneStr, m)
               /\ UNCHANGED prep
          ELSE IF history = <<>>
          THEN /\ run' = Handled(view, validation_horizon, NoneStr, m, NoResult,
                                 NoHistoryResponse)
               /\ UNCHANGED prep
          ELSE IF validation_horizon <= 0
          THEN /\ run' = Handled(view, validation_horizon, NoneStr, m, NoResult,
                                 InvalidHorizonResponse)
               /\ UNCHANGED prep
          ELSE \E result \in {backtest_prophet_forecast(history, validation_horizon, m)} :
               /\ run' = Handled(view, validation_horizon, NoneStr, m, result,
                    IF result.raised = "ValueError"
                    THEN ErrorResponse(400, <<"Invalid validation_horizon. Must be an integer.">>)
                    ELSE IF result.raised # ""
                    THEN ErrorResponse(500, <<"Prophet backtesting failed: ", result.raised>>)
                    ELSE BacktestResponse(result))
               /\ prep' = [fn |-> result.fn, series |-> result.series]
       /\ UNCHANGED <<sysVars, history>>

\* get_arima_backtesting, lines 424-516: a ValueError of the backtest goes to
\* the handler meant for int(validation_horizon)
get_arima_backtesting(exists, validation_horizon, query, m) ==
    LET arima_order_str == ArimaOrderStrArg(query)
        parsed == ParseArimaOrder(arima_order_str)
        view == "get_arima_backtesting"
    IN /\ run.view = "none"
       /\ IF ~exists
          THEN /\ run' = ProductNotFound(view, validation_horizon, query, m)
               /\ UNCHANGED prep
          ELSE IF history = <<>>
          THEN /\ run' = Handled(view, validation_horizon, query, m, NoResult,
                                 NoHistoryResponse)
               /\ UNCHANGED prep
          ELSE IF validation_horizon <= 0
          THEN /\ run' = Handled(view, validation_horizon, query, m, NoResult,
                                 InvalidHorizonResponse)
               /\ UNCHANGED prep
          ELSE IF ~parsed.ok
          THEN /\ run' = Handled(view, validation_horizon, query, m, NoResult,
                                 InvalidOrderResponse)
               /\ UNCHANGED prep
          ELSE \E result \in {backtest_arima_forecast(history, validation_horizon,
                                                      parsed.order, m)} :
               /\ run' = Handled(view, validation_horizon, query, m, result,
                    IF result.raised = "ValueError"
                    THEN ErrorResponse(400, <<"Invalid validation_horizon. Must be an integer.">>)
                    ELSE IF result.raised # ""
                    THEN ErrorResponse(500, <<"ARIMA backtesting failed: ", result.raised>>)
                    ELSE IF "error" \in result.keys THEN BacktestResponse(result)
                    ELSE Http(200, [product_details |-> ProductDetails,
                                    metrics |-> result.metrics,
                                    forecast |-> result.forecast,
                                    arima_order_used |-> result.arima_order_used]))
               /\ prep' = [fn |-> result.fn, series |-> result.series]
       /\ UNCHANGED <<sysVars, history>>

\* The transactions of the product of the request, ordered by
\* transaction_date; the product may have none
ApiRows ==
    {[transaction_date |-> t, quantity |-> MinOf(Quantities) + (t % SlotsPerDay)] :
        t \in ObsTimes}

ApiHistories ==
    {h \in SeqsUpTo(ApiRows, MaxObs) :
        \A i \in 1..(Len(h) - 1) : h[i].transaction_date <= h[i + 1].transaction_date}

ApiInit ==
    /\ products = [p \in Products |-> ProductRow(0, DefaultReorderPoint, NoSupplier)]
    /\ transactions = <<>>
    /\ now = Today * SlotsPerDay
    /\ call = NoCall
    /\ logs = <<>>
    /\ cmd = CmdIdle
    /\ reqs = [r \in Requests |-> IdleRequest]
    /\ history \in ApiHistories
    /\ prep = NoPrep
    /\ run = NoRun

\* A product without transactions may be one that does not exist
Existence == IF history = <<>> THEN BOOLEAN ELSE {TRUE}

\* One request is handled: the inputs of a view are drawn only while no
\* request has been answered
ApiNext ==
    \/ /\ run.view = "none"
       /\ \E exists \in Existence, horizon \in Horizons, m \in ProphetModels :
             get_demand_forecast(exists, horizon, m)
    \/ /\ run.view = "none"
       /\ \E exists \in Existence, horizon \in Horizons, query \in OrderStrings,
             m \in ArimaModels :
             get_arima_demand_forecast(exists, horizon, query, m)
    \/ /\ run.view = "none"
       /\ \E exists \in Existence, horizon \in Horizons, m \in ProphetModels :
             get_prophet_backtesting(exists, horizon, m)
    \/ /\ run.view = "none"
       /\ \E exists \in Existence, horizon \in Horizons, query \in OrderStrings,
             m \in ArimaModels :
             get_arima_backtesting(exists, horizon, query, m)

SpecApi == ApiInit /\ [][ApiNext]_vars

----------------------------------------------------------------------------
\* Properties of calculate_reorder_point and update_reorder_point (SpecCalc)

Called == call.op # "none"
Returned == Called /\ call.out.raised = ""

\* forecasted_demand + safety_stock before int() and the clamp, in 1/Scale^2
RawReorderPoint == call.out.forecasted_demand * Scale + call.out.safety_stock

\* C1: the persisted reorder point of every product is non-negative, and
\* every value calculate_reorder_point returns is non-negative, whatever the
\* forecast total, the standard deviation and the service level.
C1_ReorderPointNonNegative ==
    /\ \A p \in Products : products[p].reorder_point >= 0
    /\ Returned => call.out.value >= 0

\* update_reorder_point has persisted the clamped value of a negative sum
C1_Witness ==
    /\ call.op = "update_reorder_point"
    /\ Returned
    /\ RawReorderPoint < 0
    /\ products[call.product].reorder_point = 0

\* The response carries a forecast list
HasForecast(response) ==
    /\ response.kind = "http"
    /\ response.status = 200
    /\ "forecast" \in DOMAIN response.body

\* Sum of the predicted quantities of the response's forecast
ForecastTotal(response) ==
    LET f == response.body.forecast
    IN SumSeq([i \in DOMAIN f |-> f[i].yhat])

\* C2: with F the sum of the predicted quantities, s the variability estimate
\* and z the normal quantile of the service level, the result r is
\* max(0, trunc(F + z*s)): r = 0 when F + z*s < 0, and otherwise r is the
\* integer with r <= F + z*s < r + 1.
C2_ExactValue ==
    (Returned /\ HasForecast(call.response)) =>
        LET x == ForecastTotal(call.response) * Scale
                    + NormPpf(call.service_level) * call.out.demand_std_dev
            r == call.out.value
        IN /\ r >= 0
           /\ x < 0 => r = 0
           /\ x >= 0 => (r * Scale * Scale <= x /\ x < (r + 1) * Scale * Scale)

\* A positive sum with a fractional part of at least one half was truncated
C2_Witness ==
    /\ Returned
    /\ HasForecast(call.response)
    /\ call.out.value >= 1
    /\ 2 * (RawReorderPoint - call.out.value * Scale * Scale) >= Scale * Scale

\* C3 (as claimed): every call completes with a result; the forecast is
\* requested for the product's sku and exactly lead_time_days days, where
\* lead_time_days is 7 for a product without a supplier and is read from the
\* supplier otherwise.
C3_SupplierLeadTime ==
    Called =>
        /\ call.out.raised = ""
        /\ call.out.requested = <<Sku(call.product), call.out.lead_time_days>>
        /\ products[call.product].supplier = NoSupplier
              => call.out.lead_time_days = DefaultLeadTime

\* The forecast fetch failed: no connection, a 4xx/5xx answer, an answer
\* without the 'forecast' key, or an empty forecast list
FetchFailed(response) ==
    \/ response.kind = "connection_error"
    \/ /\ response.kind = "http"
       /\ \/ response.status # 200
          \/ "forecast" \notin DOMAIN response.body
          \/ response.body.forecast = <<>>

\* C4: when the forecast fetch fails, get_forecasted_demand yields 0 and
\* calculate_reorder_point returns a reorder point (nothing is raised).
C4_FetchFailureIsZeroDemand ==
    (Called /\ call.out.fetched /\ FetchFailed(call.response)) =>
        /\ call.out.forecasted_demand = 0
        /\ call.out.raised = ""
        /\ call.out.std_dev_called
        /\ call.out.value >= 0

\* A 200 answer without the 'forecast' key, and a reorder point built from
\* the safety stock alone
C4_Witness ==
    /\ Returned
    /\ call.response.kind = "http"
    /\ call.response.status = 200
    /\ "forecast" \notin DOMAIN call.response.body
    /\ call.out.forecasted_demand = 0
    /\ call.out.value > 0

\* The product of the call has a transaction dated in the 90-day window
HasRecentTransaction ==
    \E i \in DOMAIN transactions :
        /\ transactions[i].product = call.product
        /\ transactions[i].transaction_date <= now
        /\ now - transactions[i].transaction_date <= WindowDays * SlotsPerDay

\* C5: without a transaction in the window the estimate is the default 5,
\* the safety stock is z * 5 and the calculation completes; with one, the
\* estimate is the standard deviation of the window's quantities.
C5_DefaultStdDev ==
    (Called /\ call.out.std_dev_called) =>
        IF HasRecentTransaction
        THEN call.out.demand_std_dev =
                 NpStd(SalesData(call.product, transactions, now))
        ELSE /\ call.out.demand_std_dev = DefaultStdDev * Scale
             /\ call.out.safety_stock = NormPpf(call.service_level) * DefaultStdDev * Scale
             /\ call.out.raised = ""

\* A product whose only transactions are older than the window got the default
C5_Witness ==
    /\ Returned
    /\ ~HasRecentTransaction
    /\ \E i \in DOMAIN transactions : transactions[i].product = call.product
    /\ call.out.demand_std_dev = DefaultStdDev * Scale
    /\ call.out.value > 0

----------------------------------------------------------------------------
\* Properties of the command and of the concurrent request handlers (Spec)

\* C6 (as claimed): when the command has ended, it has saved the calculated
\* reorder point of every product; none was skipped because the calculation
\* of a product failed.
C6_CommandUpdatesEveryProduct ==
    cmd.pc \in {"done", "crashed"} => \A p \in Products : p < cmd.i

\* C7 (as claimed): the persisted reorder_point of a product changes only in
\* the save of update_reorder_point for that product; no step of a product
\* update, a transaction creation or an inventory-log creation changes it.
C7_OnlyUpdateReorderPointWrites ==
    [][\A p \in Products :
          products'[p].reorder_point # products[p].reorder_point
              => (cmd.pc = "save" /\ cmd.i = p /\ cmd'.i = p + 1)]_vars

\* C8 (as claimed): the save of update_reorder_point writes nothing but
\* reorder_point: it leaves the persisted stock_level of every product as it
\* was, so a concurrent stock change is not overwritten.
C8_SaveKeepsStockLevel ==
    [][(cmd.pc = "save" /\ cmd'.pc # "save")
          => \A p \in Products : products'[p].stock_level = products[p].stock_level]_vars

----------------------------------------------------------------------------
\* Properties of the prepared series (SpecPrep)

\* Total quantity of the history's transactions of calendar day d
DayTotal(d) ==
    SumSeq([i \in DOMAIN history |->
               IF DateOf(history[i].transaction_date) = d
               THEN history[i].quantity ELSE 0])

ArimaFunctions == {"forecast_demand_arima", "backtest_arima_forecast"}
ProphetFunctions == {"forecast_demand_prophet", "backtest_prophet_forecast"}

\* C9: in the series of the two ARIMA functions, every calendar day that has
\* a transaction has exactly one entry, and its value is the sum of the
\* quantities of all transactions of that day, whatever their time of day.
C9_ArimaDailySums ==
    prep.fn \in ArimaFunctions =>
        \A i \in DOMAIN history :
            LET d == DateOf(history[i].transaction_date)
                at == {k \in DOMAIN prep.series : prep.series[k].ds = Midnight(d)}
            IN /\ Cardinality(at) = 1
               /\ \A k \in at : prep.series[k].y = DayTotal(d)

\* Two transactions of one day at different times of day were added up
C9_Witness ==
    /\ prep.fn = "forecast_demand_arima"
    /\ \E i, j \in DOMAIN history :
          /\ i < j
          /\ history[i].transaction_date # history[j].transaction_date
          /\ DateOf(history[i].transaction_date) = DateOf(history[j].transaction_date)
          /\ \E k \in DOMAIN prep.series :
                /\ prep.series[k].ds = Midnight(DateOf(history[i].transaction_date))
                /\ prep.series[k].y = history[i].quantity + history[j].quantity

\* C10 (as claimed): in the frame of the two Prophet functions the time of
\* day is discarded: there is at most one row per calendar day, and the row
\* of a day holds the sum of the quantities of that day's transactions.
C10_ProphetGroupsByDay ==
    prep.fn \in ProphetFunctions =>
        /\ \A k1, k2 \in DOMAIN prep.series :
              DateOf(prep.series[k1].ds) = DateOf(prep.series[k2].ds) => k1 = k2
        /\ \A i \in DOMAIN history :
              \E k \in DOMAIN prep.series :
                  /\ DateOf(prep.series[k].ds) = DateOf(history[i].transaction_date)
                  /\ prep.series[k].y = DayTotal(DateOf(history[i].transaction_date))

----------------------------------------------------------------------------
\* Properties of the forecast and backtest requests (SpecApi)

\* The result of the forecast function the view called
Result == run.result

FirstDay == MinOf({DateOf(history[i].transaction_date) : i \in DOMAIN history})
LastDay == MaxOf({DateOf(history[i].transaction_date) : i \in DOMAIN history})

\* Calendar day d has no transaction
IsEmptyDay(d) == \A i \in DOMAIN history : DateOf(history[i].transaction_date) # d

\* series has exactly one entry for each calendar day from first to last
DenseDaily(series, first, last) ==
    /\ Len(series) = last - first + 1
    /\ \A k \in DOMAIN series : series[k].ds = Midnight(first + k - 1)

\* C11: the series an ARIMA function prepares has exactly one entry for each
\* calendar day from the first to the last transaction date, in increasing
\* order and one day apart; the data the model is fitted on is that series
\* (forecast) or a non-empty prefix of it (backtest), so it has no missing
\* day either.
C11_ArimaSeriesIsDense ==
    Result.fn \in ArimaFunctions =>
        /\ DenseDaily(Result.series, FirstDay, LastDay)
        /\ \A k \in 1..(Len(Result.series) - 1) :
              Result.series[k + 1].ds = Result.series[k].ds + SlotsPerDay
        /\ Result.constructed =>
              /\ Result.fit_on # <<>>
              /\ Result.fit_on = SubSeq(Result.series, 1, Len(Result.fit_on))
              /\ Result.fn = "forecast_demand_arima" => Result.fit_on = Result.series

\* The backtest fitted a model on a training prefix that holds a day
\* without transactions
C11_Witness ==
    /\ Result.fn = "backtest_arima_forecast"
    /\ Result.fitted
    /\ \E k \in DOMAIN Result.fit_on : IsEmptyDay(DateOf(Result.fit_on[k].ds))

\* The last calendar day before d that has a transaction
LastActiveDayBefore(d) ==
    MaxOf({DateOf(history[i].transaction_date) : i \in DOMAIN history} \cap 0..(d - 1))

\* C12 (as claimed): in the series forecast_demand_arima prepares, a day
\* between the first and the last transaction date that has no transaction
\* carries the daily total of the most recent earlier day that has
\* transactions (forward fill), not zero.
C12_ArimaForwardFill ==
    prep.fn = "forecast_demand_arima" =>
        \A k \in DOMAIN prep.series :
            LET d == DateOf(prep.series[k].ds)
            IN IsEmptyDay(d) => prep.series[k].y = DayTotal(LastActiveDayBefore(d))

\* A view has answered the request
Answered == run.view # "none"

\* C13: for an existing product without transactions, each of the four
\* views answers 404 "No historical transaction data found for this
\* product." whatever the horizon and the query string are: no forecast
\* function is called, no model is constructed or fitted, and the answer
\* carries neither a forecast nor metrics.
C13_NoHistoryIs404 ==
    (Answered /\ run.exists /\ history = <<>>) =>
        /\ run.response.status = 404
        /\ run.response.body =
              [error |-> <<"No historical transaction data found for this product.">>]
        /\ Result = NoResult
        /\ prep = NoPrep

\* The ARIMA backtest view answered 404 to a request for a product without
\* transactions whose horizon is 0 and whose query names a malformed order
C13_Witness ==
    /\ run.view = "get_arima_backtesting"
    /\ run.exists
    /\ history = <<>>
    /\ run.horizon = 0
    /\ ~ParseArimaOrder(run.query).ok
    /\ run.response.status = 404

\* The function the view called returned (it did not raise)
FunctionReturned == Result.fn # "none" /\ Result.raised = ""

\* C14: for a horizon h >= 1, when construction, fit and forecast of the
\* model succeed, forecast_demand_arima returns exactly h points, and the
\* date of each point after the first is exactly one day after the date of
\* the point before it.
C14_ArimaForecastLength ==
    (Result.fn = "forecast_demand_arima" /\ FunctionReturned /\ run.horizon >= 1) =>
        /\ Len(Result.forecast) = run.horizon
        /\ \A k \in 1..(Len(Result.forecast) - 1) :
              Result.forecast[k + 1].ds = Result.forecast[k].ds + SlotsPerDay

\* forecast_demand_arima returned the points of a horizon of two or more days
C14_Witness ==
    /\ Result.fn = "forecast_demand_arima"
    /\ FunctionReturned
    /\ run.horizon >= 2
    /\ Len(Result.forecast) = run.horizon
    /\ run.response.status = 200

\* C15 (as claimed): the k-th point forecast_demand_arima returns is dated
\* k days after the last date of the prepared series; the first point is
\* dated the day after it, and no point has the date of an observed day.
C15_ArimaForecastStartsNextDay ==
    (Result.fn = "forecast_demand_arima" /\ FunctionReturned) =>
        \A k \in DOMAIN Result.forecast :
            /\ Result.forecast[k].ds = Midnight(LastDay + k)
            /\ \A i \in DOMAIN Result.series : Result.forecast[k].ds # Result.series[i].ds

\* The timestamp of the last transaction of the history
LastObserved == MaxOf({history[i].transaction_date : i \in DOMAIN history})

\* C16: every point forecast_demand_prophet returns is dated strictly after
\* the last observed transaction, on a later calendar day; no date of the
\* history is in the output.
C16_ProphetOnlyFutureDates ==
    Result.fn = "forecast_demand_prophet" =>
        \A k \in DOMAIN Result.forecast :
            /\ Result.forecast[k].ds > LastObserved
            /\ DateOf(Result.forecast[k].ds) > LastDay
            /\ \A i \in DOMAIN history :
                  Result.forecast[k].ds # history[i].transaction_date

\* forecast_demand_prophet returned the points of a history of several dates
C16_Witness ==
    /\ Result.fn = "forecast_demand_prophet"
    /\ Len(Result.series) >= 2
    /\ Len(Result.forecast) >= 2
    /\ run.response.status = 200

\* The exception the model of the request raises for the data it is given:
\* the one of the first step that fails, "" when none does
ProphetFailure ==
    IF ProphetFit(run.model, Result.fit_on) # "" THEN ProphetFit(run.model, Result.fit_on)
    ELSE run.model.predict

ArimaFailure ==
    IF run.model.ctor # "" THEN run.model.ctor
    ELSE IF run.model.fit # "" THEN run.model.fit
    ELSE run.model.predict

\* C17: when the fit or the prediction of the model raises,
\* forecast_demand_prophet returns [] and raises nothing, and
\* forecast_demand_arima raises that exception to its caller; the Prophet
\* view answers an empty forecast with 500 and never with 200.
C17_FitFailures ==
    /\ Result.fn = "forecast_demand_prophet" =>
          /\ Result.raised = ""
          /\ ProphetFailure # "" => Result.forecast = <<>>
    /\ (Result.fn = "forecast_demand_arima" /\ ArimaFailure # "") =>
          Result.raised = ArimaFailure
    /\ (run.view = "get_demand_forecast" /\ Result.fn # "none") =>
          /\ Result.forecast = <<>> =>
                /\ run.response.status = 500
                /\ "forecast" \notin DOMAIN run.response.body
          /\ run.response.status = 200 => run.response.body.forecast # <<>>

\* The fit of Prophet raised on a frame of several rows, and the view
\* answered 500
C17_Witness ==
    /\ run.view = "get_demand_forecast"
    /\ Result.fn = "forecast_demand_prophet"
    /\ Len(Result.fit_on) >= 2
    /\ run.model.fit # ""
    /\ Result.forecast = <<>>
    /\ run.response.status = 500

BacktestFunctions == {"backtest_prophet_forecast", "backtest_arima_forecast"}

\* C18: in both backtests, for a validation horizon h with 1 <= h < length
\* of the prepared series, the training part followed by the validation part
\* is the prepared series (every entry is in exactly one of the two), the
\* validation part has h entries, and every training date is strictly
\* earlier than every validation date.
C18_SplitIsChronological ==
    (Result.fn \in BacktestFunctions
        /\ 1 <= run.horizon /\ run.horizon < Len(Result.series)) =>
        /\ Result.train \o Result.validation = Result.series
        /\ Len(Result.validation) = run.horizon
        /\ Result.train # <<>>
        /\ \A i \in DOMAIN Result.train : \A j \in DOMAIN Result.validation :
              Result.train[i].ds < Result.validation[j].ds

\* The Prophet backtest split a frame of three rows into one training row
\* and two validation rows
C18_Witness ==
    /\ Result.fn = "backtest_prophet_forecast"
    /\ Len(Result.series) = 3
    /\ Len(Result.train) = 1
    /\ Len(Result.validation) = 2

\* The backtest returned the insufficient-data error
InsufficientDataReturned ==
    /\ Result.raised = ""
    /\ Result.keys = {"error"}
    /\ Result.error = InsufficientData

\* C19: for a validation horizon h >= 1, both backtests return the
\* insufficient-data error exactly when the prepared series has at most h
\* entries; they then construct and fit no model, and the view answers 400
\* with that very message.
C19_InsufficientData ==
    (Result.fn \in BacktestFunctions /\ run.horizon >= 1) =>
        /\ InsufficientDataReturned <=> Len(Result.series) <= run.horizon
        /\ InsufficientDataReturned =>
              /\ ~Result.constructed
              /\ ~Result.fitted
              /\ run.response = Http(400, [error |-> InsufficientData])

\* The ARIMA backtest refused a series of two days for a horizon of two days
C19_Witness ==
    /\ Result.fn = "backtest_arima_forecast"
    /\ Len(Result.series) = 2
    /\ run.horizon = 2
    /\ InsufficientDataReturned
    /\ run.response.status = 400

\* The model was fitted and predicted a non-finite value for every
\* validation date
AllPredictionsNonFinite ==
    /\ Result.fn \in BacktestFunctions
    /\ Result.fitted
    /\ run.model.predict = ""
    /\ \A k \in DOMAIN Result.validation : ~run.model.yhat[k].finite

\* C20 (as claimed): when every validation prediction is non-finite, both
\* backtests return the metrics mae = "NaN" and rmse = "NaN" together with
\* the validation forecast, and no error; the view answers 200 with those
\* metrics.
C20_NaNMetrics ==
    AllPredictionsNonFinite =>
        /\ Result.raised = ""
        /\ "error" \notin Result.keys
        /\ Result.metrics = NaNMetrics
        /\ Len(Result.forecast) = Len(Result.validation)
        /\ run.response.status = 200
        /\ "metrics" \in DOMAIN run.response.body
        /\ run.response.body.metrics = NaNMetrics

\* The backtest returned metrics and a forecast, and no error
BacktestSucceeded ==
    /\ Result.fn \in BacktestFunctions
    /\ Result.raised = ""
    /\ "metrics" \in Result.keys
    /\ "error" \notin Result.keys

\* C21: when a backtest succeeds, its model was fitted on the training
\* prefix and on nothing else, and the forecast it returns has one entry for
\* each row of the validation suffix, in the same (chronological) order and
\* with the same 'ds': no training date and no date after the last observed
\* transaction is in it.
C21_BacktestForecastDates ==
    BacktestSucceeded =>
        /\ Result.fitted
        /\ Result.fit_on = Result.train
        /\ Len(Result.forecast) = Len(Result.validation)
        /\ \A k \in DOMAIN Result.forecast :
              /\ Result.forecast[k].ds = Result.validation[k].ds
              /\ Result.forecast[k].ds <= LastObserved
              /\ \A i \in DOMAIN Result.train : Result.forecast[k].ds # Result.train[i].ds
        /\ \A k \in 1..(Len(Result.forecast) - 1) :
              Result.forecast[k].ds < Result.forecast[k + 1].ds

\* The Prophet backtest succeeded on a training prefix of two rows
C21_Witness ==
    /\ BacktestSucceeded
    /\ Result.fn = "backtest_prophet_forecast"
    /\ Len(Result.train) >= 2
    /\ Len(Result.forecast) >= 1
    /\ run.response.status = 200

ArimaViews == {"get_arima_demand_forecast", "get_arima_backtesting"}
BacktestViews == {"get_prophet_backtesting", "get_arima_backtesting"}

\* The request reached the part of the view that reads its parameters
ReachedParameters ==
    /\ Answered
    /\ run.exists
    /\ history # <<>>

\* Three parts, each a non-negative integer
WellFormedOrder(query) ==
    /\ Len(query) = 3
    /\ \A i \in DOMAIN query : IntOf(query[i]).ok /\ IntOf(query[i]).value >= 0

\* C22: an ARIMA endpoint that is given an order string answers 400 with the
\* invalid-order message, and constructs no model, unless the string is three
\* comma-separated non-negative integers; an accepted 'p,d,q' is the order
\* the model is built with and the arima_order_used of the response.
C22_OrderStringValidated ==
    (/\ ReachedParameters
     /\ run.view \in ArimaViews
     /\ run.view \in BacktestViews => run.horizon >= 1
     /\ run.query # NoneStr) =>
        IF WellFormedOrder(run.query)
        THEN /\ Result.fn # "none"
             /\ Result.order = [i \in 1..3 |-> IntOf(run.query[i]).value]
             /\ run.response.status = 200 =>
                   run.response.body.arima_order_used = Result.order
        ELSE /\ run.response = InvalidOrderResponse
             /\ ~Result.constructed

EndpointViews ==
    {"get_demand_forecast", "get_arima_demand_forecast",
     "get_prophet_backtesting", "get_arima_backtesting"}

\* C23: each of the four endpoints answers a horizon of zero or less with
\* HTTP 400, and does so before a model is constructed or fitted: the two
\* forecast endpoints as well as the two backtest endpoints.
C23_NonPositiveHorizonRejected ==
    (/\ ReachedParameters
     /\ run.view \in EndpointViews
     /\ run.horizon <= 0) =>
        /\ run.response.status = 400
        /\ ~Result.constructed
        /\ ~Result.fitted

----------------------------------------------------------------------------
\* The ARIMA entry points called without an order (SpecCall): the two
\* functions of forecast.py called with their default arima_order, and the
\* two ARIMA views.

\* forecast.py, line 56: arima_order=(5, 1, 0)
ForecastArimaOrderDefault == <<5, 1, 0>>

\* forecast.py, line 168: arima_order=(0, 0, 0)
BacktestArimaOrderDefault == <<0, 0, 0>>

\* forecast_demand_arima(product_sku, historical_data, horizon)
CallForecastDemandArima(horizon, m) ==
    /\ run.view = "none"
    /\ history # <<>>
    /\ \E result \in {forecast_demand_arima(history, horizon,
                                            ForecastArimaOrderDefault, m)} :
          /\ run' = Handled("forecast_demand_arima", horizon, NoneStr, m, result,
                            NoRun.response)
          /\ prep' = [fn |-> result.fn, series |-> result.series]
    /\ UNCHANGED <<sysVars, history>>

\* backtest_arima_forecast(product_sku, historical_data, validation_horizon)
CallBacktestArimaForecast(validation_horizon, m) ==
    /\ run.view = "none"
    /\ history # <<>>
    /\ \E result \in {backtest_arima_forecast(history, validation_horizon,
                                              BacktestArimaOrderDefault, m)} :
          /\ run' = Handled("backtest_arima_forecast", validation_horizon, NoneStr,
                            m, result, NoRun.response)
          /\ prep' = [fn |-> result.fn, series |-> result.series]
    /\ UNCHANGED <<sysVars, history>>

CallNext ==
    \/ \E horizon \in Horizons, m \in ArimaModels :
          CallForecastDemandArima(horizon, m)
    \/ \E horizon \in Horizons, m \in ArimaModels :
          CallBacktestArimaForecast(horizon, m)
    \/ \E exists \in Existence, horizon \in Horizons, query \in OrderStrings,
          m \in ArimaModels :
          get_arima_demand_forecast(exists, horizon, query, m)
    \/ \E exists \in Existence, horizon \in Horizons, query \in OrderStrings,
          m \in ArimaModels :
          get_arima_backtesting(exists, horizon, query, m)

SpecCall == ApiInit /\ [][CallNext]_vars

\* C24: when no order is supplied, every ARIMA entry point (the function
\* forecast_demand_arima, the function backtest_arima_forecast and the two
\* ARIMA endpoints) builds its model with order (5, 1, 0), and reports
\* arima_order_used = (5, 1, 0) wherever it reports the order.
C24_DefaultOrderIs510 ==
    (/\ Result.fn \in ArimaFunctions
     /\ run.query = NoneStr
     /\ Result.constructed) =>
        /\ Result.order = <<5, 1, 0>>
        /\ "arima_order_used" \in Result.keys =>
              Result.arima_order_used = <<5, 1, 0>>
        /\ (run.view \in ArimaViews /\ run.response.status = 200) =>
              run.response.body.arima_order_used = <<5, 1, 0>>

\* C25: each of the four endpoints answers every request with status 200,
\* 400, 404 or 500, and every answer other than 200 has an 'error' field; an
\* exception raised by a forecast or backtest function (in its data
\* preparation, in the model's constructor, fit or predict, or after the
\* metrics) does not leave the view: the answer is an error response.
C25_EveryRequestAnswered ==
    (Answered /\ run.view \in EndpointViews) =>
        /\ run.response.status \in {200, 400, 404, 500}
        /\ run.response.status # 200 =>
              /\ "error" \in DOMAIN run.response.body
              /\ run.response.body.error # <<>>
        /\ Result.raised # "" => run.response.status \in {400, 500}

\* backtest_prophet_forecast raised after its metrics were computed, and the
\* view answered 500 with the error
C25_Witness ==
    /\ run.view = "get_prophet_backtesting"
    /\ Result.fitted
    /\ Result.raised = "UnboundLocalError"
    /\ run.response.status = 500
    /\ run.response.body.error = <<"Prophet backtesting failed: ", "UnboundLocalError">>

\* A backtest got the predictions for its validation rows
Evaluated ==
    /\ Result.fn \in BacktestFunctions
    /\ Result.fitted
    /\ run.model.predict = ""

\* The positions of the validation rows whose prediction is finite, ascending
KeptPositions ==
    SortedSeq({k \in DOMAIN Result.validation : run.model.yhat[k].finite})

\* C26: in both backtests the array of actual values and the array of
\* predicted values have the same length and are paired by validation date:
\* both hold, in chronological order, exactly the validation dates whose
\* prediction is finite, so a date is dropped from one array exactly when it
\* is dropped from the other.
C26_PairedFiltering ==
    Evaluated =>
        /\ Len(Result.actual_values) = Len(Result.forecasted_values)
        /\ Len(Result.actual_values) = Len(KeptPositions)
        /\ \A i \in DOMAIN KeptPositions :
              /\ Result.actual_values[i] = Result.validation[KeptPositions[i]].y
              /\ Result.forecasted_values[i] = run.model.yhat[KeptPositions[i]].yhat

\* Of two validation days with different quantities the first has a
\* non-finite prediction: the arrays hold the second day only
C26_Witness ==
    /\ Evaluated
    /\ Len(Result.validation) = 2
    /\ Result.validation[1].y # Result.validation[2].y
    /\ ~run.model.yhat[1].finite
    /\ run.model.yhat[2].finite
    /\ Result.actual_values = <<Result.validation[2].y>>
    /\ Len(Result.forecasted_values) = 1

\* The calendar days of the 90-day window before the call on which the
\* product of the call has a transaction
WindowDaysOf(p) ==
    {DateOf(transactions[i].transaction_date) : i \in
        {j \in DOMAIN transactions :
            /\ transactions[j].product = p
            /\ transactions[j].transaction_date <= now
            /\ now - transactions[j].transaction_date <= WindowDays * SlotsPerDay}}

\* The product's total quantity on day d, over its transactions of the window
WindowDayQuantity(p, d) ==
    LET rows == SelectSeq(transactions, LAMBDA r :
                    /\ r.product = p
                    /\ DateOf(r.transaction_date) = d
                    /\ r.transaction_date <= now
                    /\ now - r.transaction_date <= WindowDays * SlotsPerDay)
    IN SumSeq([i \in DOMAIN rows |-> rows[i].quantity])

\* One value per day of the window that has a transaction, in date order
DailyQuantities(p) ==
    LET days == SortedSeq(WindowDaysOf(p))
    IN [k \in DOMAIN days |-> WindowDayQuantity(p, days[k])]

\* C27: for a product with a transaction in the 90 days before the
\* calculation, the variability estimate is the standard deviation of the
\* product's daily quantities of that window, the transactions of one day
\* being one daily value; older transactions and other products' transactions
\* do not count.
C27_StdDevOfDailyQuantities ==
    (Called /\ call.out.std_dev_called /\ HasRecentTransaction) =>
        call.out.demand_std_dev = NpStd(DailyQuantities(call.product))

\* C28: in both backtests, for a horizon h with 1 <= h < length of the
\* series, the validation set has exactly h entries, on the h consecutive
\* calendar days that end at the day of the last observed transaction, also
\* when the history has days without transactions.
C28_ValidationIsLastDays ==
    (/\ Result.fn \in BacktestFunctions
     /\ 1 <= run.horizon
     /\ run.horizon < Len(Result.series)) =>
        /\ Len(Result.validation) = run.horizon
        /\ \A k \in DOMAIN Result.validation :
              DateOf(Result.validation[k].ds) = LastDay - run.horizon + k

NotAnIntegerMessage == <<"Invalid validation_horizon. Must be an integer.">>

\* The error message of the answer, <<>> when it has none
ErrorOf(response) ==
    IF "error" \in DOMAIN response.body THEN response.body.error ELSE <<>>

\* C29: a backtest endpoint answers 400 'Invalid validation_horizon. Must
\* be an integer.' only when validation_horizon cannot be parsed as an
\* integer, which no routed request does; a ValueError raised inside the
\* backtest (by the ARIMA constructor, say) is never answered with it.
C29_NotAnIntegerOnlyForHorizon ==
    (Answered /\ run.view \in BacktestViews) =>
        /\ run.horizon \in Int => ErrorOf(run.response) # NotAnIntegerMessage
        /\ Result.raised = "ValueError" => ErrorOf(run.response) # NotAnIntegerMessage

\* The sum of the stock_change values of the InventoryLog rows of product p
LoggedChange(p) ==
    LET rows == SelectSeq(logs, LAMBDA l : l.product = p)
    IN SumSeq([i \in DOMAIN rows |-> rows[i].stock_change])

\* Only transaction creations and inventory-log creations have run, and all
\* of them have completed
OnlyStockRequestsAllCompleted ==
    /\ cmd.pc = "idle"
    /\ \A r \in Requests :
          /\ reqs[r].kind \in {"none", "txn", "inv", "inv_rejected"}
          /\ reqs[r].pc \in {"idle", "done"}

\* C30: after any interleaving of transaction creations and inventory-log
\* creations, once all of them have completed, the stock_level of every
\* product is its initial stock_level (0) plus the sum of the stock_change
\* values of the InventoryLog rows created for it: no update is lost.
C30_StockLevelMatchesLogs ==
    OnlyStockRequestsAllCompleted =>
        \A p \in Products : products[p].stock_level = 0 + LoggedChange(p)

====
